---- MODULE Spec2Model ----
(***************************************************************************)
(* fastcache: a sharded in-memory cache with per-entry TTL, per-shard LRU  *)
(* order, a process-wide size budget and a background cleanup goroutine.   *)
(* The model follows cache.go and stats.go operation by operation; every   *)
(* step below is the code between two points at which another goroutine    *)
(* can observe or change shared state.                                     *)
(***************************************************************************)
EXTENDS Integers, Sequences, FiniteSets, TLC

(* ------------------------------ bounds -------------------------------- *)
\* total number of client calls started in one behaviour
MaxOps == 2
\* the same under SpecStore
MaxStoreOps == 4
\* the clock stops advancing here
MaxTime == 3
\* the number of Sets under SpecFill, and how many of the first may pick any shard
MaxFill == 21
FillMixed == 2
\* total number of client calls under SpecStats, and the largest value a shard's
\* hit or miss counter starts with there
MaxStatsOps == 3
MaxCount == 1
\* calls made under SpecConfig
MaxConfigOps == 1
\* calls made under SpecShutdown
MaxShutdownOps == 2
\* calls made under SpecKey
MaxKeyOps == 3
\* calls in the specification of Close and the statistics
MaxCloseOps == 3

(* --------------------------- configuration ---------------------------- *)
\* Config.ShardCount
ShardCount == 2
\* the Config.MaxMemoryBytes of the instance under Spec: two short entries fit
MaxMemoryBytes == 132
\* the positive Config.DefaultTTL an instance may be built with (0 is the other)
PositiveDefaultTTL == 2
\* the Config.MaxMemoryBytes of the instance under SpecFill: five short entries fit
FillBudget == 330
\* config.MaxMemoryBytes of the instance of SpecShutdown: one entry of size 66
TightBudget == 66

Shards == 0 .. (ShardCount - 1)

\* keys are byte strings: "a", "b", "c"
Keys == {<<97>>, <<98>>, <<99>>}
\* the keys of SpecFill: one byte each, two to choose from for every Set
FillKeys == {<<b>> : b \in 2 .. (2 * MaxFill + 1)}
\* values are string payloads: "x", "yy"
StringValue(bytes) == [type |-> "string", bytes |-> bytes]
Values == {StringValue(<<120>>), StringValue(<<121, 121>>)}
NoValue == [type |-> "nil", bytes |-> <<>>]
\* the variadic ttl argument of Set: absent, zero, negative, positive
TTLArgs == {<<>>, <<0>>, <<-1>>, <<1>>}

(* ------------------------------ threads ------------------------------- *)
Reaper == 0
Clients == {1, 2}
\* goroutines started by `go c.Delete(key)`; at most one per client call
Asyncs == {10 + i : i \in 1 .. MaxOps}
Threads == Clients \cup Asyncs \cup {Reaper}
NoThread == -1

VARIABLES
    defaultTTL,  \* config.DefaultTTL
    maxMemoryBytes, \* config.MaxMemoryBytes
    data,        \* data[s]: shard.data, key -> entry
    lruList,     \* lruList[s]: shard.lruList, front first
    size,        \* size[s]: shard.size
    hitCount,    \* hitCount[s]: shard.hitCount
    missCount,   \* missCount[s]: shard.missCount
    mu,          \* mu[s]: the goroutine holding shard.mu for writing
    totalSize, totalHits, totalMiss,
    closed,      \* Cache.closed (0 or 1)
    stopCh,      \* TRUE once close(c.stopCh) has run
    now,         \* time.Now().UnixNano()
    pc,          \* pc[t]: where goroutine t is
    loc,         \* loc[t]: the locals of the call goroutine t is in
    res,         \* res[c]: what the call client c is returning from returns
    nOps,        \* calls started so far
    closeDone,   \* history: some Close has returned nil
    expect,      \* history: see Observe
    clean,       \* history: see Observe
    written,     \* history: see Observe
    raced,       \* history: see Observe
    gone,        \* history: see Observe
    swept,       \* history: see Observe
    touched,     \* history: see Observe
    evicted,     \* history: see Observe
    checked,     \* history: see Observe
    atClose      \* history: see Observe

cacheVars == <<data, lruList, size, hitCount, missCount, totalSize, totalHits, totalMiss>>
histVars == <<closeDone, expect, clean, written, raced, gone, swept, touched, evicted, checked,
              atClose>>
vars == <<defaultTTL, maxMemoryBytes, data, lruList, size, hitCount, missCount, mu, totalSize,
          totalHits, totalMiss, closed, stopCh, now, pc, loc, res, nOps,
          closeDone, expect, clean, written, raced, gone, swept, touched, evicted, checked,
          atClose>>

(* ------------------------- hashing (cache.go:83) ----------------------- *)
\* bitwise xor of two n-bit numbers
RECURSIVE Xor(_, _, _)
Xor(a, b, n) ==
    IF n = 0 THEN 0 ELSE ((a + b) % 2) + 2 * Xor(a \div 2, b \div 2, n - 1)

\* one FNV-1a round on a 32-bit state kept as <<high 16 bits, low 16 bits>>:
\* h = (h xor b) * 16777619 mod 2^32, with 16777619 = 2^24 + 403
FnvStep(h, b) ==
    LET lo == (h[2] \div 256) * 256 + Xor(h[2] % 256, b, 8)
        hi == h[1]
    IN  <<(hi * 403 + ((lo * 403) \div 65536) + (lo % 256) * 256) % 65536,
          (lo * 403) % 65536>>

RECURSIVE FnvFold(_, _)
FnvFold(h, bytes) ==
    IF bytes = <<>> THEN h ELSE FnvFold(FnvStep(h, Head(bytes)), Tail(bytes))

\* offset basis 2166136261 = 0x811C9DC5
hash(key) == FnvFold(<<33052, 40389>>, key)

\* as getShard, taking the high half of the hash for the whole of it
getShardHigh(key) == hash(key)[1] % ShardCount

\* index of c.shards[c.hash(key) % uint32(c.config.ShardCount)]
getShard(key) ==
    LET h == hash(key)
    IN  ((h[1] % ShardCount) * (65536 % ShardCount) + h[2]) % ShardCount

\* getShard for every key in use
shardOf == [k \in Keys \cup FillKeys |-> getShard(k)]

(* --------------------------- size estimation -------------------------- *)
calculateSize(key, value) ==
    Len(key)
    + (CASE value.type \in {"string", "bytes"} -> Len(value.bytes)
         [] value.type \in {"int", "float"} -> 8
         [] value.type = "bool" -> 1
         [] OTHER -> 16)
    + 64

(* ------------------------------- entries ------------------------------ *)
NoEntry == [value |-> NoValue, size |-> 0, expiry |-> 0]

\* as isExpired, with >= for >
isExpiredInclusive(e, t) == e.expiry > 0 /\ t >= e.expiry

\* Entry.isExpired, at clock reading t
isExpired(e, t) == e.expiry > 0 /\ t > e.expiry

\* as SetExpiry, testing the ttl argument for # 0 instead of > 0
SetExpiryNonZero(ttl, t) ==
    IF Len(ttl) > 0 /\ ttl[1] # 0 THEN t + ttl[1]
    ELSE IF defaultTTL > 0 THEN t + defaultTTL
    ELSE 0

\* the expiry Set computes from its ttl argument and the configured default
SetExpiry(ttl, t) ==
    IF Len(ttl) > 0 /\ ttl[1] > 0 THEN t + ttl[1]
    ELSE IF defaultTTL > 0 THEN t + defaultTTL
    ELSE 0

(* --------------------------- recency list ----------------------------- *)
\* as Without, leaving the element in the list
WithoutNothing(list, k) == list

RECURSIVE Without(_, _)
Without(list, k) ==
    IF list = <<>> THEN <<>>
    ELSE IF Head(list) = k THEN Without(Tail(list), k)
    ELSE <<Head(list)>> \o Without(Tail(list), k)

InList(list, k) == \E i \in 1 .. Len(list) : list[i] = k

PushFront(list, k) == <<k>> \o list
\* as MoveToFront, pushing a second node for the element
MoveToFrontAgain(list, k) == IF InList(list, k) THEN <<k>> \o list ELSE list

\* list.MoveToFront: nothing happens for an element that is not in this list
MoveToFront(list, k) == IF InList(list, k) THEN <<k>> \o Without(list, k) ELSE list

\* as Back, taking the element at the front
BackIsFront(list) == list[1]

\* list.Back: the element at the tail
Back(list) == list[Len(list)]

\* a map without some keys
DropKeys(m, ks) == [k \in (DOMAIN m) \ ks |-> m[k]]
EmptyMap == [k \in {} |-> NoEntry]

RECURSIVE SumSizes(_)
SumSizes(m) ==
    IF DOMAIN m = {} THEN 0
    ELSE LET k == CHOOSE x \in DOMAIN m : TRUE
         IN  m[k].size + SumSizes(DropKeys(m, {k}))

RECURSIVE SumOver(_, _)
SumOver(f, S) ==
    IF S = {} THEN 0
    ELSE LET s == CHOOSE x \in S : TRUE IN f[s] + SumOver(f, S \ {s})

(* ------------------------------- locals ------------------------------- *)
\* key, value, ttl: the arguments; size, expiry: computed by Set; i: a shard
\* loop index; live: the *Entry found by Get is still the one in the map;
\* ent: the fields of that Entry once it has left the map
\* now: the clock reading a cleanup sweep took
\* totalEntries, hits, misses: the locals of GetStats
NoLoc == [key |-> <<>>, value |-> NoValue, ttl |-> <<>>, size |-> 0, expiry |-> 0,
          i |-> 0, live |-> FALSE, ent |-> NoEntry, now |-> 0,
          totalEntries |-> 0, hits |-> 0, misses |-> 0]
NoRes == [op |-> "none", key |-> <<>>, out |-> "none", val |-> NoValue]
Result(op, key, out, val) == [op |-> op, key |-> key, out |-> out, val |-> val]

GetPcs == {"get_check", "get_splice", "get_ret"}

\* The *Entry pointers that Gets in flight hold: when keys ks leave shard s,
\* the pointed-to entries keep the fields they had and are no longer in the map.
Detach(s, ks) ==
    [t \in Threads |->
        IF pc[t] \in GetPcs /\ loc[t].live /\ loc[t].key \in ks /\ shardOf[loc[t].key] = s
        THEN [loc[t] EXCEPT !.live = FALSE, !.ent = data[s][loc[t].key]]
        ELSE loc[t]]

\* as Held, but reading the copy made when the entry left the map
HeldCopy(t) == loc[t].ent

\* the fields of the entry a Get holds, as memory has them now
Held(t) == IF loc[t].live THEN data[shardOf[loc[t].key]][loc[t].key] ELSE loc[t].ent

\* a goroutine's call is over: a client has its result, an async delete ends
Finished(t) == IF t \in Clients THEN "ret" ELSE "free"
Return(t, r) == IF t \in Clients THEN res' = [res EXCEPT ![t] = r] ELSE UNCHANGED res

(* -------------------------------- Init -------------------------------- *)
\* New, lines 64-79: empty shards, the cleanup goroutine started
InitState ==
    /\ data = [s \in Shards |-> EmptyMap]
    /\ lruList = [s \in Shards |-> <<>>]
    /\ size = [s \in Shards |-> 0]
    /\ mu = [s \in Shards |-> NoThread]
    /\ totalSize = 0
    /\ closed = 0
    /\ stopCh = FALSE
    /\ now = 1
    /\ pc = [t \in Threads |-> IF t \in Clients THEN "idle"
                               ELSE IF t = Reaper THEN "select" ELSE "free"]
    /\ loc = [t \in Threads |-> NoLoc]
    /\ res = [c \in Clients |-> NoRes]
    /\ nOps = 0
    /\ closeDone = FALSE
    /\ expect = [c \in Clients |-> NoValue]
    /\ clean = "writing"
    /\ written = [k \in Keys |-> NoValue]
    /\ raced = FALSE
    /\ gone = [k \in Keys |-> "no"]
    /\ swept = 0
    /\ touched = [k \in Keys |-> 0]
    /\ evicted = [s \in Shards |-> 0]
    /\ checked = [c \in Clients |-> NoEntry]
    /\ atClose = <<>>

\* the hit and miss counters of a new cache
InitCounters ==
    /\ hitCount = [s \in Shards |-> 0]
    /\ missCount = [s \in Shards |-> 0]
    /\ totalHits = 0 /\ totalMiss = 0

Init ==
    /\ defaultTTL \in {0, PositiveDefaultTTL}
    /\ maxMemoryBytes = MaxMemoryBytes
    /\ InitState
    /\ InitCounters


(* --------------------------- the closed flag --------------------------- *)
\* as isClosed, without the load
isClosedNever == FALSE

\* atomic.LoadInt32(&c.closed) == 1, the first statement of Set, Get and Delete
isClosed == closed = 1

\* as casFails, with a plain store in place of the compare-and-swap
casNeverFails == FALSE

\* !atomic.CompareAndSwapInt32(&c.closed, 0, 1): the swap fails
casFails == closed # 0

(* ------------------------- Set (cache.go:121) -------------------------- *)
\* as sizeDelta, forgetting the size of the entry that is replaced
sizeDeltaNoOld(newSize, oldSize) == newSize

\* as sizeDelta, adding the distance between the two sizes
sizeDeltaAbs(newSize, oldSize) == IF newSize >= oldSize THEN newSize - oldSize ELSE oldSize - newSize

\* size-existing.size, what an update adds to both size counters
sizeDelta(newSize, oldSize) == newSize - oldSize

Insert(m, k, e) == [x \in (DOMAIN m) \cup {k} |-> IF x = k THEN e ELSE m[x]]

\* lines 122-134: the closed check, the size and the expiry
SetBegin(t, k, v, ttl) ==
    /\ pc[t] = "idle"
    /\ nOps' = nOps + 1
    /\ IF isClosed
       THEN /\ Return(t, Result("set", k, "ErrCacheClosed", NoValue))
            /\ pc' = [pc EXCEPT ![t] = "ret"]
            /\ UNCHANGED loc
       ELSE /\ pc' = [pc EXCEPT ![t] = "set_lock"]
            /\ loc' = [loc EXCEPT ![t] = [NoLoc EXCEPT !.key = k, !.value = v, !.ttl = ttl,
                                            !.size = calculateSize(k, v),
                                            !.expiry = SetExpiry(ttl, now)]]
            /\ UNCHANGED res
    /\ UNCHANGED <<defaultTTL, maxMemoryBytes, cacheVars, mu, closed, stopCh, now>>

\* lines 136-168: under shard.mu, update the existing entry or insert a new one
SetLocked(t) ==
    LET k == loc[t].key
        s == shardOf[k]
        e == [value |-> loc[t].value, size |-> loc[t].size, expiry |-> loc[t].expiry]
    IN  /\ pc[t] = "set_lock"
        /\ mu[s] = NoThread
        /\ mu' = [mu EXCEPT ![s] = t]
        /\ IF k \in DOMAIN data[s]
           THEN /\ totalSize' = totalSize + sizeDelta(e.size, data[s][k].size)
                /\ size' = [size EXCEPT ![s] = @ + sizeDelta(e.size, data[s][k].size)]
                /\ data' = [data EXCEPT ![s][k] = e]
                /\ lruList' = [lruList EXCEPT ![s] = MoveToFront(@, k)]
           ELSE /\ lruList' = [lruList EXCEPT ![s] = PushFront(@, k)]
                /\ data' = [data EXCEPT ![s] = Insert(@, k, e)]
                /\ totalSize' = totalSize + e.size
                /\ size' = [size EXCEPT ![s] = @ + e.size]
        /\ pc' = [pc EXCEPT ![t] = "set_evict"]
        /\ loc' = [loc EXCEPT ![t] = [NoLoc EXCEPT !.key = k]]
        /\ UNCHANGED <<defaultTTL, maxMemoryBytes, hitCount, missCount, totalHits, totalMiss, closed,
                       stopCh, now, res, nOps>>

(* --------------------- eviction (cache.go:235, 253) -------------------- *)
\* as shardsToEvict, passing over every shard
shardsToEvictAll == ShardCount

\* lines 241-244: shardsToEvict := len(c.shards) / 4, at least 1
shardsToEvict == IF ShardCount \div 4 < 1 THEN 1 ELSE ShardCount \div 4

\* as withinBudget, with < for <=
withinBudgetStrict(total) == total < maxMemoryBytes

\* atomic.LoadInt64(&c.totalSize) <= c.config.MaxMemoryBytes, line 236
withinBudget(total) == total <= maxMemoryBytes

\* evictIfNeeded, lines 236-244, called by Set while it still holds shard.mu
\* (the deferred Unlock runs when Set returns)
EvictCheck(t) ==
    /\ pc[t] = "set_evict"
    /\ IF withinBudget(totalSize)
       THEN /\ mu' = [mu EXCEPT ![shardOf[loc[t].key]] = NoThread]
            /\ Return(t, Result("set", loc[t].key, "ok", NoValue))
            /\ pc' = [pc EXCEPT ![t] = "ret"]
            /\ loc' = [loc EXCEPT ![t] = NoLoc]
       ELSE /\ pc' = [pc EXCEPT ![t] = "evict_lock"]
            /\ loc' = [loc EXCEPT ![t].i = 0]
            /\ UNCHANGED <<mu, res>>
    /\ UNCHANGED <<defaultTTL, maxMemoryBytes, cacheVars, closed, stopCh, now, nOps>>

\* evictFromShard, line 254: shard.mu.Lock() on c.shards[i]
EvictLock(t) ==
    /\ pc[t] = "evict_lock"
    /\ mu[loc[t].i] = NoThread
    /\ mu' = [mu EXCEPT ![loc[t].i] = t]
    /\ pc' = [pc EXCEPT ![t] = "evict_body"]
    /\ UNCHANGED <<defaultTTL, maxMemoryBytes, cacheVars, closed, stopCh, now, loc, res, nOps>>

\* evictFromShard, lines 257-268 with count = 1, and its deferred Unlock; after
\* the last shard evictIfNeeded and Set return and Set's deferred Unlock runs
EvictBody(t) ==
    LET s == loc[t].i
        own == shardOf[loc[t].key]
        last == (s + 1 >= shardsToEvict)
    IN  /\ pc[t] = "evict_body"
        /\ IF Len(lruList[s]) > 0
           THEN LET k == Back(lruList[s])
                    e == data[s][k]
                IN  /\ data' = [data EXCEPT ![s] = DropKeys(@, {k})]
                    /\ lruList' = [lruList EXCEPT ![s] = Without(@, k)]
                    /\ totalSize' = totalSize - e.size
                    /\ size' = [size EXCEPT ![s] = @ - e.size]
                    /\ loc' = [Detach(s, {k}) EXCEPT ![t] =
                                   IF last THEN NoLoc ELSE [loc[t] EXCEPT !.i = s + 1]]
           ELSE /\ loc' = [loc EXCEPT ![t] =
                                   IF last THEN NoLoc ELSE [loc[t] EXCEPT !.i = s + 1]]
                /\ UNCHANGED <<data, lruList, totalSize, size>>
        /\ IF last
           THEN /\ mu' = [mu EXCEPT ![s] = NoThread, ![own] = NoThread]
                /\ Return(t, Result("set", loc[t].key, "ok", NoValue))
                /\ pc' = [pc EXCEPT ![t] = "ret"]
           ELSE /\ mu' = [mu EXCEPT ![s] = NoThread]
                /\ pc' = [pc EXCEPT ![t] = "evict_lock"]
                /\ UNCHANGED res
        /\ UNCHANGED <<defaultTTL, maxMemoryBytes, hitCount, missCount, totalHits, totalMiss, closed,
                       stopCh, now, nOps>>


(* ------------------------- Get (cache.go:175) -------------------------- *)
\* as Found, taking every lookup for a success
FoundAlways(t) == TRUE

\* exists, line 183: the lookup found an entry (still in the map, or removed since)
Found(t) == loc[t].live \/ loc[t].ent # NoEntry

\* the lowest-numbered goroutine slot not in use
FreeAsync == CHOOSE a \in Asyncs : pc[a] = "free" /\ \A b \in Asyncs : pc[b] = "free" => a <= b

\* lines 176-180
GetBegin(t, k) ==
    /\ pc[t] = "idle"
    /\ nOps' = nOps + 1
    /\ IF isClosed
       THEN /\ Return(t, Result("get", k, "miss", NoValue))
            /\ pc' = [pc EXCEPT ![t] = "ret"]
            /\ UNCHANGED loc
       ELSE /\ pc' = [pc EXCEPT ![t] = "get_lookup"]
            /\ loc' = [loc EXCEPT ![t] = [NoLoc EXCEPT !.key = k]]
            /\ UNCHANGED res
    /\ UNCHANGED <<defaultTTL, maxMemoryBytes, cacheVars, mu, closed, stopCh, now>>

\* lines 182-184: the map lookup under the read lock
GetLookup(t) ==
    LET k == loc[t].key
        s == shardOf[k]
    IN  /\ pc[t] = "get_lookup"
        /\ mu[s] = NoThread
        /\ loc' = [loc EXCEPT ![t].live = (k \in DOMAIN data[s])]
        /\ pc' = [pc EXCEPT ![t] = "get_check"]
        /\ UNCHANGED <<defaultTTL, maxMemoryBytes, cacheVars, mu, closed, stopCh, now, res, nOps>>

\* lines 186-198: absent, or expired (read from the entry without the lock)
GetCheck(t) ==
    LET k == loc[t].key
        s == shardOf[k]
    IN  /\ pc[t] = "get_check"
        /\ IF ~Found(t) \/ isExpired(Held(t), now)
           THEN /\ missCount' = [missCount EXCEPT ![s] = @ + 1]
                /\ totalMiss' = totalMiss + 1
                /\ Return(t, Result("get", k, "miss", NoValue))
                /\ IF Found(t)
                   THEN /\ pc' = [pc EXCEPT ![t] = "ret", ![FreeAsync] = "del_begin"]
                        /\ loc' = [loc EXCEPT ![t] = NoLoc,
                                              ![FreeAsync] = [NoLoc EXCEPT !.key = k]]
                   ELSE /\ pc' = [pc EXCEPT ![t] = "ret"]
                        /\ loc' = [loc EXCEPT ![t] = NoLoc]
           ELSE /\ pc' = [pc EXCEPT ![t] = "get_splice"]
                /\ UNCHANGED <<missCount, totalMiss, res, loc>>
        /\ UNCHANGED <<defaultTTL, maxMemoryBytes, data, lruList, size, hitCount, totalSize, totalHits,
                       mu, closed, stopCh, now, nOps>>

\* as GetSplice, linking the key at the front whether or not the entry found
\* is still in the list
GetSpliceRelinks(t) ==
    LET k == loc[t].key
        s == shardOf[k]
    IN  /\ pc[t] = "get_splice"
        /\ mu[s] = NoThread
        /\ lruList' = [lruList EXCEPT ![s] = <<k>> \o Without(@, k)]
        /\ pc' = [pc EXCEPT ![t] = "get_ret"]
        /\ UNCHANGED <<defaultTTL, maxMemoryBytes, data, size, hitCount, missCount, totalSize, totalHits,
                       totalMiss, mu, closed, stopCh, now, loc, res, nOps>>

\* as GetSplice, without taking the shard lock
GetSpliceUnlocked(t) ==
    LET k == loc[t].key
        s == shardOf[k]
    IN  /\ pc[t] = "get_splice"
        /\ lruList' = [lruList EXCEPT ![s] = IF loc[t].live THEN MoveToFront(@, k) ELSE @]
        /\ pc' = [pc EXCEPT ![t] = "get_ret"]
        /\ UNCHANGED <<defaultTTL, maxMemoryBytes, data, size, hitCount, missCount, totalSize, totalHits,
                       totalMiss, mu, closed, stopCh, now, loc, res, nOps>>

\* lines 201-203: the recency splice under the write lock
GetSplice(t) ==
    LET k == loc[t].key
        s == shardOf[k]
    IN  /\ pc[t] = "get_splice"
        /\ mu[s] = NoThread
        /\ lruList' = [lruList EXCEPT ![s] = IF loc[t].live THEN MoveToFront(@, k) ELSE @]
        /\ pc' = [pc EXCEPT ![t] = "get_ret"]
        /\ UNCHANGED <<defaultTTL, maxMemoryBytes, data, size, hitCount, missCount, totalSize, totalHits,
                       totalMiss, mu, closed, stopCh, now, loc, res, nOps>>

\* lines 205-207
GetRet(t) ==
    LET k == loc[t].key
        s == shardOf[k]
    IN  /\ pc[t] = "get_ret"
        /\ hitCount' = [hitCount EXCEPT ![s] = @ + 1]
        /\ totalHits' = totalHits + 1
        /\ Return(t, Result("get", k, "hit", Held(t).value))
        /\ pc' = [pc EXCEPT ![t] = "ret"]
        /\ loc' = [loc EXCEPT ![t] = NoLoc]
        /\ UNCHANGED <<defaultTTL, maxMemoryBytes, data, lruList, size, missCount, totalSize, totalMiss,
                       mu, closed, stopCh, now, nOps>>

(* ------------------------ Delete (cache.go:211) ------------------------ *)
\* lines 212-216, called by a client
DeleteBegin(t, k) ==
    /\ pc[t] = "idle"
    /\ nOps' = nOps + 1
    /\ IF isClosed
       THEN /\ Return(t, Result("delete", k, "false", NoValue))
            /\ pc' = [pc EXCEPT ![t] = "ret"]
            /\ UNCHANGED loc
       ELSE /\ pc' = [pc EXCEPT ![t] = "del_lock"]
            /\ loc' = [loc EXCEPT ![t] = [NoLoc EXCEPT !.key = k]]
            /\ UNCHANGED res
    /\ UNCHANGED <<defaultTTL, maxMemoryBytes, cacheVars, mu, closed, stopCh, now>>

\* lines 212-216, in the goroutine started by Get's `go c.Delete(key)`
AsyncDeleteBegin(a) ==
    /\ pc[a] = "del_begin"
    /\ IF isClosed
       THEN /\ pc' = [pc EXCEPT ![a] = "free"]
            /\ loc' = [loc EXCEPT ![a] = NoLoc]
       ELSE /\ pc' = [pc EXCEPT ![a] = "del_lock"]
            /\ UNCHANGED loc
    /\ UNCHANGED <<defaultTTL, maxMemoryBytes, cacheVars, mu, closed, stopCh, now, res, nOps>>

\* as DeleteLocked, without the subtraction from shard.size
DeleteLockedNoShardSize(t) ==
    LET k == loc[t].key
        s == shardOf[k]
    IN  /\ pc[t] = "del_lock"
        /\ mu[s] = NoThread
        /\ IF k \in DOMAIN data[s]
           THEN /\ data' = [data EXCEPT ![s] = DropKeys(@, {k})]
                /\ lruList' = [lruList EXCEPT ![s] = Without(@, k)]
                /\ totalSize' = totalSize - data[s][k].size
                /\ UNCHANGED size
                /\ loc' = [Detach(s, {k}) EXCEPT ![t] = NoLoc]
                /\ Return(t, Result("delete", k, "true", NoValue))
           ELSE /\ loc' = [loc EXCEPT ![t] = NoLoc]
                /\ Return(t, Result("delete", k, "false", NoValue))
                /\ UNCHANGED <<data, lruList, totalSize, size>>
        /\ pc' = [pc EXCEPT ![t] = Finished(t)]
        /\ UNCHANGED <<defaultTTL, maxMemoryBytes, hitCount, missCount, totalHits, totalMiss, mu, closed,
                       stopCh, now, nOps>>

\* lines 218-231
DeleteLocked(t) ==
    LET k == loc[t].key
        s == shardOf[k]
    IN  /\ pc[t] = "del_lock"
        /\ mu[s] = NoThread
        /\ IF k \in DOMAIN data[s]
           THEN /\ data' = [data EXCEPT ![s] = DropKeys(@, {k})]
                /\ lruList' = [lruList EXCEPT ![s] = Without(@, k)]
                /\ totalSize' = totalSize - data[s][k].size
                /\ size' = [size EXCEPT ![s] = @ - data[s][k].size]
                /\ loc' = [Detach(s, {k}) EXCEPT ![t] = NoLoc]
                /\ Return(t, Result("delete", k, "true", NoValue))
           ELSE /\ loc' = [loc EXCEPT ![t] = NoLoc]
                /\ Return(t, Result("delete", k, "false", NoValue))
                /\ UNCHANGED <<data, lruList, totalSize, size>>
        /\ pc' = [pc EXCEPT ![t] = Finished(t)]
        /\ UNCHANGED <<defaultTTL, maxMemoryBytes, hitCount, missCount, totalHits, totalMiss, mu, closed,
                       stopCh, now, nOps>>

(* ------------------------- Clear (cache.go:317) ------------------------ *)
ClearBegin(t) ==
    /\ pc[t] = "idle"
    /\ nOps' = nOps + 1
    /\ pc' = [pc EXCEPT ![t] = "clear_shard"]
    /\ loc' = [loc EXCEPT ![t] = NoLoc]
    /\ UNCHANGED <<defaultTTL, maxMemoryBytes, cacheVars, mu, closed, stopCh, now, res>>

\* as ClearShard, also storing 0 to the shard's hit and miss counters
ClearShardAndCounters(t) ==
    LET s == loc[t].i
    IN  /\ pc[t] = "clear_shard"
        /\ mu[s] = NoThread
        /\ data' = [data EXCEPT ![s] = EmptyMap]
        /\ lruList' = [lruList EXCEPT ![s] = <<>>]
        /\ size' = [size EXCEPT ![s] = 0]
        /\ hitCount' = [hitCount EXCEPT ![s] = 0]
        /\ missCount' = [missCount EXCEPT ![s] = 0]
        /\ loc' = [Detach(s, DOMAIN data[s]) EXCEPT ![t].i = s + 1]
        /\ pc' = [pc EXCEPT ![t] = IF s + 1 < ShardCount THEN "clear_shard" ELSE "clear_store"]
        /\ UNCHANGED <<defaultTTL, maxMemoryBytes, totalSize, totalHits, totalMiss, mu,
                       closed, stopCh, now, res, nOps>>

\* lines 319-323 for shard i
ClearShard(t) ==
    LET s == loc[t].i
    IN  /\ pc[t] = "clear_shard"
        /\ mu[s] = NoThread
        /\ data' = [data EXCEPT ![s] = EmptyMap]
        /\ lruList' = [lruList EXCEPT ![s] = <<>>]
        /\ size' = [size EXCEPT ![s] = 0]
        /\ loc' = [Detach(s, DOMAIN data[s]) EXCEPT ![t].i = s + 1]
        /\ pc' = [pc EXCEPT ![t] = IF s + 1 < ShardCount THEN "clear_shard" ELSE "clear_store"]
        /\ UNCHANGED <<defaultTTL, maxMemoryBytes, hitCount, missCount, totalSize, totalHits, totalMiss, mu,
                       closed, stopCh, now, res, nOps>>

\* as ClearStore, without the store to totalSize
ClearStoreNothing(t) ==
    /\ pc[t] = "clear_store"
    /\ Return(t, Result("clear", <<>>, "done", NoValue))
    /\ pc' = [pc EXCEPT ![t] = "ret"]
    /\ loc' = [loc EXCEPT ![t] = NoLoc]
    /\ UNCHANGED <<defaultTTL, maxMemoryBytes, cacheVars, mu, closed, stopCh, now, nOps>>

\* line 325
ClearStore(t) ==
    /\ pc[t] = "clear_store"
    /\ totalSize' = 0
    /\ Return(t, Result("clear", <<>>, "done", NoValue))
    /\ pc' = [pc EXCEPT ![t] = "ret"]
    /\ loc' = [loc EXCEPT ![t] = NoLoc]
    /\ UNCHANGED <<defaultTTL, maxMemoryBytes, data, lruList, size, hitCount, missCount, totalHits,
                   totalMiss, mu, closed, stopCh, now, nOps>>

(* ----------------------- ResetStats (stats.go:99) ---------------------- *)
\* lines 100-101
ResetBegin(t) ==
    /\ pc[t] = "idle"
    /\ nOps' = nOps + 1
    /\ totalHits' = 0
    /\ totalMiss' = 0
    /\ pc' = [pc EXCEPT ![t] = "reset_shard"]
    /\ loc' = [loc EXCEPT ![t] = NoLoc]
    /\ UNCHANGED <<defaultTTL, maxMemoryBytes, data, lruList, size, hitCount, missCount, totalSize, mu,
                   closed, stopCh, now, res>>

\* as ResetShard, without line 105
ResetShardHitsOnly(t) ==
    LET s == loc[t].i
        last == (s + 1 >= ShardCount)
    IN  /\ pc[t] = "reset_shard"
        /\ hitCount' = [hitCount EXCEPT ![s] = 0]
        /\ IF last
           THEN /\ Return(t, Result("reset", <<>>, "done", NoValue))
                /\ pc' = [pc EXCEPT ![t] = "ret"]
                /\ loc' = [loc EXCEPT ![t] = NoLoc]
           ELSE /\ loc' = [loc EXCEPT ![t].i = s + 1]
                /\ UNCHANGED <<pc, res>>
        /\ UNCHANGED <<defaultTTL, maxMemoryBytes, data, lruList, size, missCount, totalSize,
                       totalHits, totalMiss, mu, closed, stopCh, now, nOps>>

\* lines 104-105 for shard i
ResetShard(t) ==
    LET s == loc[t].i
        last == (s + 1 >= ShardCount)
    IN  /\ pc[t] = "reset_shard"
        /\ hitCount' = [hitCount EXCEPT ![s] = 0]
        /\ missCount' = [missCount EXCEPT ![s] = 0]
        /\ IF last
           THEN /\ Return(t, Result("reset", <<>>, "done", NoValue))
                /\ pc' = [pc EXCEPT ![t] = "ret"]
                /\ loc' = [loc EXCEPT ![t] = NoLoc]
           ELSE /\ loc' = [loc EXCEPT ![t].i = s + 1]
                /\ UNCHANGED <<pc, res>>
        /\ UNCHANGED <<defaultTTL, maxMemoryBytes, data, lruList, size, totalSize, totalHits, totalMiss, mu,
                       closed, stopCh, now, nOps>>

(* ------------------------ GetStats (stats.go:22) ----------------------- *)
\* as hitRatio, without the test of line 35
hitRatioUnguarded(hits, misses) == <<hits, hits + misses>>

\* lines 34-37: float64(hits) / float64(total), kept as the exact fraction
\* <<numerator, denominator>>; the zero value of hitRatio is 0/1
hitRatio(hits, misses) ==
    IF hits + misses > 0 THEN <<hits, hits + misses>> ELSE <<0, 1>>

\* the *Stats snapshot (the fields derived from configuration are left out)
Stats(size_, totalEntries, hits, misses) ==
    [type |-> "stats", TotalSize |-> size_, TotalEntries |-> totalEntries,
     HitCount |-> hits, MissCount |-> misses, HitRatio |-> hitRatio(hits, misses)]

\* line 23
StatsBegin(t) ==
    /\ pc[t] = "idle"
    /\ nOps' = nOps + 1
    /\ pc' = [pc EXCEPT ![t] = "stats_shard"]
    /\ loc' = [loc EXCEPT ![t] = NoLoc]
    /\ UNCHANGED <<defaultTTL, maxMemoryBytes, cacheVars, mu, closed, stopCh, now, res>>

\* lines 25-27 for shard i: len(shard.data) under the read lock
StatsShard(t) ==
    LET s == loc[t].i
    IN  /\ pc[t] = "stats_shard"
        /\ mu[s] = NoThread
        /\ loc' = [loc EXCEPT ![t].i = s + 1,
                              ![t].totalEntries = @ + Cardinality(DOMAIN data[s])]
        /\ pc' = [pc EXCEPT ![t] = IF s + 1 < ShardCount THEN "stats_shard" ELSE "stats_hits"]
        /\ UNCHANGED <<defaultTTL, maxMemoryBytes, cacheVars, mu, closed, stopCh, now, res, nOps>>

\* line 30
StatsHits(t) ==
    /\ pc[t] = "stats_hits"
    /\ loc' = [loc EXCEPT ![t].hits = totalHits]
    /\ pc' = [pc EXCEPT ![t] = "stats_miss"]
    /\ UNCHANGED <<defaultTTL, maxMemoryBytes, cacheVars, mu, closed, stopCh, now, res, nOps>>

\* lines 31-37
StatsMiss(t) ==
    /\ pc[t] = "stats_miss"
    /\ loc' = [loc EXCEPT ![t].misses = totalMiss]
    /\ pc' = [pc EXCEPT ![t] = "stats_size"]
    /\ UNCHANGED <<defaultTTL, maxMemoryBytes, cacheVars, mu, closed, stopCh, now, res, nOps>>

\* lines 39-52
StatsSize(t) ==
    /\ pc[t] = "stats_size"
    /\ Return(t, Result("stats", <<>>, "done",
                        Stats(totalSize, loc[t].totalEntries, loc[t].hits, loc[t].misses)))
    /\ pc' = [pc EXCEPT ![t] = "ret"]
    /\ loc' = [loc EXCEPT ![t] = NoLoc]
    /\ UNCHANGED <<defaultTTL, maxMemoryBytes, cacheVars, mu, closed, stopCh, now, nOps>>

(* ------------------------- Close (cache.go:329) ------------------------ *)
\* line 330: CompareAndSwapInt32(&c.closed, 0, 1)
CloseBegin(t) ==
    /\ pc[t] = "idle"
    /\ nOps' = nOps + 1
    /\ IF casFails
       THEN /\ Return(t, Result("close", <<>>, "ErrCacheClosed", NoValue))
            /\ pc' = [pc EXCEPT ![t] = "ret"]
            /\ UNCHANGED closed
       ELSE /\ closed' = 1
            /\ pc' = [pc EXCEPT ![t] = "close_signal"]
            /\ UNCHANGED res
    /\ UNCHANGED <<defaultTTL, maxMemoryBytes, cacheVars, mu, stopCh, now, loc>>

\* as CloseSignal, also storing 0 in totalSize
CloseSignalZeroes(t) ==
    /\ pc[t] = "close_signal"
    /\ stopCh' = TRUE
    /\ totalSize' = 0
    /\ pc' = [pc EXCEPT ![t] = "close_wait"]
    /\ UNCHANGED <<defaultTTL, maxMemoryBytes, data, lruList, size, hitCount, missCount, totalHits,
                   totalMiss, mu, closed, now, loc, res, nOps>>

\* line 334: close(c.stopCh)
CloseSignal(t) ==
    /\ pc[t] = "close_signal"
    /\ stopCh' = TRUE
    /\ pc' = [pc EXCEPT ![t] = "close_wait"]
    /\ UNCHANGED <<defaultTTL, maxMemoryBytes, cacheVars, mu, closed, now, loc, res, nOps>>

\* as CloseWait, returning without waiting for the cleanup goroutine
CloseNoWait(t) ==
    /\ pc[t] = "close_wait"
    /\ Return(t, Result("close", <<>>, "ok", NoValue))
    /\ pc' = [pc EXCEPT ![t] = "ret"]
    /\ UNCHANGED <<defaultTTL, maxMemoryBytes, cacheVars, mu, closed, stopCh, now, loc, nOps>>

\* lines 335-337: c.wg.Wait() returns once cleanupRoutine has run wg.Done()
CloseWait(t) ==
    /\ pc[t] = "close_wait"
    /\ pc[Reaper] = "done"
    /\ Return(t, Result("close", <<>>, "ok", NoValue))
    /\ pc' = [pc EXCEPT ![t] = "ret"]
    /\ UNCHANGED <<defaultTTL, maxMemoryBytes, cacheVars, mu, closed, stopCh, now, loc, nOps>>

(* ------------------ cleanup goroutine (cache.go:272, 289) -------------- *)
\* some shard holds an entry that is expired at clock reading t
SomeExpired(t) == \E s \in Shards : \E k \in DOMAIN data[s] : isExpired(data[s][k], t)

\* The select takes the ticker case; cleanupExpired reads the clock (line 290).
\* The ticker is taken to fire only when an entry is expired: a sweep that reads
\* the clock while nothing is expired removes nothing, since every entry stored
\* later expires after that reading.
ReaperTick ==
    /\ pc[Reaper] = "select"
    /\ SomeExpired(now)
    /\ pc' = [pc EXCEPT ![Reaper] = "sweep"]
    /\ loc' = [loc EXCEPT ![Reaper] = [NoLoc EXCEPT !.now = now]]
    /\ UNCHANGED <<defaultTTL, maxMemoryBytes, cacheVars, mu, closed, stopCh, now, res, nOps>>

\* the select takes the stopCh case: return, and the deferred wg.Done()
ReaperStop ==
    /\ pc[Reaper] = "select"
    /\ stopCh
    /\ pc' = [pc EXCEPT ![Reaper] = "done"]
    /\ UNCHANGED <<defaultTTL, maxMemoryBytes, cacheVars, mu, closed, stopCh, now, loc, res, nOps>>

\* as collectable, with >= for >
collectableInclusive(e, t) == e.expiry > 0 /\ t >= e.expiry

\* line 299: entry.expiry > 0 && now > entry.expiry
collectable(e, t) == e.expiry > 0 /\ t > e.expiry

\* lines 293-312 for shard i
ReaperSweep ==
    LET s == loc[Reaper].i
        expiredKeys == {k \in DOMAIN data[s] : collectable(data[s][k], loc[Reaper].now)}
        last == (s + 1 >= ShardCount)
    IN  /\ pc[Reaper] = "sweep"
        /\ mu[s] = NoThread
        /\ data' = [data EXCEPT ![s] = DropKeys(@, expiredKeys)]
        /\ lruList' = [lruList EXCEPT ![s] = SelectSeq(@, LAMBDA k : k \notin expiredKeys)]
        /\ totalSize' = totalSize - (SumSizes(data[s]) - SumSizes(DropKeys(data[s], expiredKeys)))
        /\ size' = [size EXCEPT ![s] = @ - (SumSizes(data[s]) - SumSizes(DropKeys(data[s], expiredKeys)))]
        /\ loc' = [Detach(s, expiredKeys) EXCEPT ![Reaper] =
                       IF last THEN NoLoc ELSE [loc[Reaper] EXCEPT !.i = s + 1]]
        /\ pc' = [pc EXCEPT ![Reaper] = IF last THEN "select" ELSE "sweep"]
        /\ UNCHANGED <<defaultTTL, maxMemoryBytes, hitCount, missCount, totalHits, totalMiss, mu, closed,
                       stopCh, now, res, nOps>>

(* ------------------------------ the caller ----------------------------- *)
\* the caller takes the result of the call that returned
Returned(t) ==
    /\ pc[t] = "ret"
    /\ pc' = [pc EXCEPT ![t] = "idle"]
    /\ res' = [res EXCEPT ![t] = NoRes]
    /\ UNCHANGED <<defaultTTL, maxMemoryBytes, cacheVars, mu, closed, stopCh, now, loc, nOps>>

(* ------------------------------ the clock ------------------------------ *)
\* a finite expiry is stored in the cache, held by a Get or about to be stored
SomeExpiry ==
    \/ \E s \in Shards : \E k \in DOMAIN data[s] : data[s][k].expiry > 0
    \/ \E t \in Clients : loc[t].expiry > 0 \/ loc[t].ent.expiry > 0

\* The clock is read only to compute and to compare expiries, so its readings
\* are counted from the moment a finite expiry exists.
Tick ==
    /\ now < MaxTime
    /\ SomeExpiry
    /\ now' = now + 1
    /\ UNCHANGED <<defaultTTL, maxMemoryBytes, cacheVars, mu, closed, stopCh, pc, loc, res, nOps>>

(* ------------------------------ history -------------------------------- *)
SetPcs == {"set_lock", "set_evict", "evict_lock", "evict_body"}
SetInFlight(k) == \E t \in Clients : pc[t] \in SetPcs /\ loc[t].key = k

\* the clock reading t is past the finite expiry of entry e
PastExpiry(e, t) == e.expiry # 0 /\ t > e.expiry

\* what a history variable says about a key that holds no value to expect
Mark(why) == [type |-> why, bytes |-> <<>>]

\* k gets a new or rewritten entry in this step
Rewritten(k) ==
    LET s == shardOf[k]
    IN  k \in DOMAIN data'[s] /\ (k \notin DOMAIN data[s] \/ data'[s][k] # data[s][k])

\* the entry of k is removed in this step
Removed(k) == k \in DOMAIN data[shardOf[k]] /\ k \notin DOMAIN data'[shardOf[k]]

\* a call touches the entry of k in this step
Touches(k) ==
    \E t \in Clients :
        /\ loc[t].key = k
        /\ \/ pc[t] = "set_lock" /\ pc'[t] = "set_evict"
           \/ pc[t] = "get_splice" /\ pc'[t] = "get_ret" /\ loc[t].live

\* the rank of the newest touch among the other entries of k's shard
Newest(k) ==
    LET others == {x \in Keys \ {k} : shardOf[x] = shardOf[k]}
    IN  IF \A x \in others : touched[x] = 0 THEN 0
        ELSE CHOOSE n \in {touched[x] : x \in others} : \A x \in others : touched[x] <= n

\* History variables; they record, and no action reads them.
\*  closeDone: a Close call has returned nil.
\*  gone[k]: "deleted" once a client's Delete(k) has removed k, "expired" once
\*    the cleanup sweep or an asynchronous delete has removed the entry of k
\*    after its expiry; "no" again as soon as a Set(k) is called or in flight.
\*  expect[c], set when client c calls Get(k) or Delete(k) on an open cache with
\*    no Set(k) in flight, and kept until the caller has taken the result:
\*      the value of k's entry, for a Get, if the entry is there and unexpired;
\*        given up (NoValue) once a step rewrites or removes that entry or the
\*        clock passes its expiry;
\*      Mark("expired") if the entry is there and expired, Mark(gone[k]) if k
\*        is absent and gone; given up once a step stores an entry for k.
\*      for a Clear, ResetStats or GetStats: Mark("alone") if no other call and no
\*        asynchronous delete is in flight, given up once one starts.
\*  swept: the number of entries that Clear calls have removed so far.
\*  touched[k]: 0 while k has no entry; otherwise the rank of the last touch of
\*    k's entry among the touches of its shard's entries, a touch being the
\*    locked part of a Set(k) or the splice of a Get(k) hit on that entry.
\*  evicted[s]: the number of entries the eviction pass has removed from shard s.
\*  checked[c]: the fields that the entry held by client c's Get had when the Get
\*    read its expiry (line 192), kept until the caller has taken the result.
\*  atClose: the entries, recency lists, sizes and counters as they were when
\*    the Close that closed the cache was called; empty while the cache is open.
\*  clean, written, raced: clean is "writing" while every call so far was a Set
\*    of a key no other call set, storing no expiry (written[k] is the value
\*    passed, raced says that two of them were in flight together); "reading"
\*    once Gets have started with every Set finished; "dirty" after anything
\*    else.
\* c, op, k: the client that starts a call in this step, the call and its key
\* (NoThread for a step inside a call).
Observe(c, op, k) ==
    /\ closeDone' = (closeDone \/ \E t \in Clients : pc[t] = "close_wait" /\ pc'[t] = "ret")
    /\ gone' = [x \in Keys |->
          IF (c # NoThread /\ op = "set" /\ x = k) \/ SetInFlight(x) \/ Rewritten(x) THEN "no"
          ELSE IF Removed(x)
          THEN IF \E t \in Clients : pc[t] = "del_lock" /\ pc'[t] = "ret" THEN "deleted"
               ELSE IF PastExpiry(data[shardOf[x]][x], now)
                       /\ (\/ pc[Reaper] = "sweep" /\ loc'[Reaper] # loc[Reaper]
                           \/ \E a \in Asyncs : pc[a] = "del_lock" /\ pc'[a] = "free")
               THEN "expired"
               ELSE "no"
          ELSE gone[x]]
    /\ expect' = [t \in Clients |->
          IF t = c
          THEN IF op \in {"clear", "reset", "stats"}
               THEN IF /\ \A x \in Clients \ {c} : pc[x] \in {"idle", "ret"}
                       /\ \A a \in Asyncs : pc[a] = "free"
                    THEN Mark("alone") ELSE NoValue
               ELSE IF op \notin {"get", "delete"} \/ closed = 1 \/ SetInFlight(k) THEN NoValue
               ELSE LET s == shardOf[k]
                    IN  IF k \in DOMAIN data[s]
                        THEN IF PastExpiry(data[s][k], now) THEN Mark("expired")
                             ELSE IF op = "get" THEN data[s][k].value ELSE NoValue
                        ELSE IF gone[k] # "no" THEN Mark(gone[k]) ELSE NoValue
          ELSE IF pc'[t] = "idle" THEN NoValue
          ELSE IF expect[t] = NoValue \/ pc[t] = "ret" THEN expect[t]
          ELSE IF expect[t].type = "alone"
          THEN IF c # NoThread \/ \E a \in Asyncs : pc'[a] # "free" THEN NoValue ELSE expect[t]
          ELSE LET kk == loc[t].key
                   s == shardOf[kk]
               IN  IF expect[t].type \in {"expired", "deleted"}
                   THEN IF Rewritten(kk) THEN NoValue ELSE expect[t]
                   ELSE IF Rewritten(kk) \/ Removed(kk) \/ PastExpiry(data'[s][kk], now')
                   THEN NoValue ELSE expect[t]]
    /\ swept' = swept + SumOver([s \in Shards |->
                        IF \E t \in Clients : pc[t] = "clear_shard" /\ loc[t].i = s
                                               /\ loc'[t].i = s + 1
                        THEN Cardinality(DOMAIN data[s]) ELSE 0], Shards)
    /\ touched' = [x \in Keys |->
          IF x \notin DOMAIN data'[shardOf[x]] THEN 0
          ELSE IF Touches(x) THEN 1 + Newest(x)
          ELSE touched[x]]
    /\ checked' = [t \in Clients |->
          IF pc'[t] = "idle" THEN NoEntry
          ELSE IF pc[t] = "get_check" /\ pc'[t] # pc[t] /\ Found(t) THEN Held(t)
          ELSE checked[t]]
    /\ atClose' = IF closed = 0 /\ closed' = 1 THEN cacheVars ELSE atClose
    /\ evicted' = [s \in Shards |->
          IF \E t \in Clients : pc[t] = "evict_body" /\ loc[t].i = s /\ pc'[t] # pc[t]
          THEN evicted[s] + Cardinality(DOMAIN data[s] \ DOMAIN data'[s])
          ELSE evicted[s]]
    /\ IF clean = "dirty" \/ c = NoThread
       THEN UNCHANGED <<clean, written, raced>>
       ELSE IF op = "set" /\ clean = "writing" /\ written[k] = NoValue /\ ~closed = 1
               /\ loc'[c].expiry = 0
       THEN /\ written' = [written EXCEPT ![k] = loc'[c].value]
            /\ raced' = (raced \/ \E t \in Clients : pc[t] \in SetPcs)
            /\ UNCHANGED clean
       ELSE IF op = "get" /\ \A t \in Clients : pc[t] \notin SetPcs
       THEN /\ clean' = "reading"
            /\ UNCHANGED <<written, raced>>
       ELSE /\ clean' = "dirty"
            /\ written' = [x \in Keys |-> NoValue]
            /\ raced' = FALSE

Internal == Observe(NoThread, "none", <<>>)

(* ---------------------------- specification ---------------------------- *)
\* the steps inside Set, Get and Delete calls, and the caller taking the result
KeyedSteps ==
    \/ \E t \in Clients : SetLocked(t) /\ Internal
    \/ \E t \in Clients : EvictCheck(t) /\ Internal
    \/ \E t \in Clients : EvictLock(t) /\ Internal
    \/ \E t \in Clients : EvictBody(t) /\ Internal
    \/ \E t \in Clients : GetLookup(t) /\ Internal
    \/ \E t \in Clients : GetCheck(t) /\ Internal
    \/ \E t \in Clients : GetSplice(t) /\ Internal
    \/ \E t \in Clients : GetRet(t) /\ Internal
    \/ \E t \in Clients \cup Asyncs : DeleteLocked(t) /\ Internal
    \/ \E t \in Clients : Returned(t) /\ Internal

\* Two clients make up to MaxOps calls in all, any calls with any arguments, while
\* the clock advances, the cleanup goroutine runs and asynchronous deletes run.
Next ==
    \/ /\ nOps < MaxOps
       /\ \/ \E t \in Clients, k \in Keys, v \in Values, ttl \in TTLArgs :
                SetBegin(t, k, v, ttl) /\ Observe(t, "set", k)
          \/ \E t \in Clients, k \in Keys : GetBegin(t, k) /\ Observe(t, "get", k)
          \/ \E t \in Clients, k \in Keys : DeleteBegin(t, k) /\ Observe(t, "delete", k)
          \/ \E t \in Clients : ClearBegin(t) /\ Observe(t, "clear", <<>>)
          \/ \E t \in Clients : ResetBegin(t) /\ Observe(t, "reset", <<>>)
          \/ \E t \in Clients : StatsBegin(t) /\ Observe(t, "stats", <<>>)
          \/ \E t \in Clients : CloseBegin(t) /\ Observe(t, "close", <<>>)
    \/ KeyedSteps
    \/ \E a \in Asyncs : AsyncDeleteBegin(a) /\ Internal
    \/ \E t \in Clients : ClearShard(t) /\ Internal
    \/ \E t \in Clients : ClearStore(t) /\ Internal
    \/ \E t \in Clients : ResetShard(t) /\ Internal
    \/ \E t \in Clients : StatsShard(t) /\ Internal
    \/ \E t \in Clients : StatsHits(t) /\ Internal
    \/ \E t \in Clients : StatsMiss(t) /\ Internal
    \/ \E t \in Clients : StatsSize(t) /\ Internal
    \/ \E t \in Clients : CloseSignal(t) /\ Internal
    \/ \E t \in Clients : CloseWait(t) /\ Internal
    \/ ReaperTick /\ Internal
    \/ ReaperStop /\ Internal
    \/ ReaperSweep /\ Internal
    \/ Tick /\ Internal

Spec == Init /\ [][Next]_vars

\* The cache used as a plain store: built with DefaultTTL = 0 and called with Set
\* (no ttl argument), Get and Delete only, up to MaxStoreOps calls in all. No
\* entry has an expiry, so the cleanup goroutine and the clock change nothing.
InitStore == Init /\ defaultTTL = 0

NextStore ==
    \/ /\ nOps < MaxStoreOps
       /\ \/ \E t \in Clients, k \in Keys, v \in Values :
                SetBegin(t, k, v, <<>>) /\ Observe(t, "set", k)
          \/ \E t \in Clients, k \in Keys : GetBegin(t, k) /\ Observe(t, "get", k)
          \/ \E t \in Clients, k \in Keys : DeleteBegin(t, k) /\ Observe(t, "delete", k)
    \/ KeyedSteps

SpecStore == InitStore /\ [][NextStore]_vars

\* One client fills the cache: MaxFill Sets of distinct keys with the value "x" on
\* an instance whose budget holds five such entries. The first FillMixed keys may
\* hash to any shard, the later ones hash to shards the eviction pass never visits.
Filler == 1

FillChoice(n) ==
    {k \in {<<2 * n>>, <<2 * n + 1>>} : n <= FillMixed \/ shardOf[k] >= shardsToEvict}

InitFill ==
    /\ defaultTTL = 0
    /\ maxMemoryBytes = FillBudget
    /\ InitState
    /\ InitCounters

NextFill ==
    \/ /\ nOps < MaxFill
       /\ \E k \in FillChoice(nOps + 1) : SetBegin(Filler, k, StringValue(<<120>>), <<>>)
       /\ UNCHANGED histVars
    \/ SetLocked(Filler) /\ UNCHANGED histVars
    \/ EvictCheck(Filler) /\ UNCHANGED histVars
    \/ EvictLock(Filler) /\ UNCHANGED histVars
    \/ EvictBody(Filler) /\ UNCHANGED histVars
    \/ Returned(Filler) /\ UNCHANGED histVars

SpecFill == InitFill /\ [][NextFill]_vars

\* The statistics surface: a cache without TTL that has been read before and is
\* empty again (its counters hold what earlier Gets left), called with Set of
\* "x", Get, Clear, ResetStats and GetStats, up to MaxStatsOps calls in all.
InitStats ==
    /\ defaultTTL = 0
    /\ maxMemoryBytes = MaxMemoryBytes
    /\ InitState
    /\ hitCount \in [Shards -> 0 .. MaxCount]
    /\ missCount \in [Shards -> 0 .. MaxCount]
    /\ totalHits = SumOver(hitCount, Shards)
    /\ totalMiss = SumOver(missCount, Shards)

NextStats ==
    \/ /\ nOps < MaxStatsOps
       /\ \/ \E t \in Clients, k \in Keys :
                SetBegin(t, k, StringValue(<<120>>), <<>>) /\ Observe(t, "set", k)
          \/ \E t \in Clients, k \in Keys : GetBegin(t, k) /\ Observe(t, "get", k)
          \/ \E t \in Clients : ClearBegin(t) /\ Observe(t, "clear", <<>>)
          \/ \E t \in Clients : ResetBegin(t) /\ Observe(t, "reset", <<>>)
          \/ \E t \in Clients : StatsBegin(t) /\ Observe(t, "stats", <<>>)
    \/ \E t \in Clients : SetLocked(t) /\ Internal
    \/ \E t \in Clients : EvictCheck(t) /\ Internal
    \/ \E t \in Clients : EvictLock(t) /\ Internal
    \/ \E t \in Clients : EvictBody(t) /\ Internal
    \/ \E t \in Clients : GetLookup(t) /\ Internal
    \/ \E t \in Clients : GetCheck(t) /\ Internal
    \/ \E t \in Clients : GetSplice(t) /\ Internal
    \/ \E t \in Clients : GetRet(t) /\ Internal
    \/ \E t \in Clients : ClearShard(t) /\ Internal
    \/ \E t \in Clients : ClearStore(t) /\ Internal
    \/ \E t \in Clients : ResetShard(t) /\ Internal
    \/ \E t \in Clients : StatsShard(t) /\ Internal
    \/ \E t \in Clients : StatsHits(t) /\ Internal
    \/ \E t \in Clients : StatsMiss(t) /\ Internal
    \/ \E t \in Clients : StatsSize(t) /\ Internal
    \/ \E t \in Clients : Returned(t) /\ Internal

SpecStats == InitStats /\ [][NextStats]_vars

\* Shutdown of a cache whose budget holds a single entry of the smaller size:
\* Set with any arguments and Close, up to MaxShutdownOps calls in all, while
\* the clock advances and the cleanup goroutine runs.
InitShutdown ==
    /\ defaultTTL = 0
    /\ maxMemoryBytes = TightBudget
    /\ InitState
    /\ InitCounters

NextShutdown ==
    \/ /\ nOps < MaxShutdownOps
       /\ \/ \E t \in Clients, k \in Keys, v \in Values, ttl \in TTLArgs :
                SetBegin(t, k, v, ttl) /\ Observe(t, "set", k)
          \/ \E t \in Clients : CloseBegin(t) /\ Observe(t, "close", <<>>)
    \/ \E t \in Clients : SetLocked(t) /\ Internal
    \/ \E t \in Clients : EvictCheck(t) /\ Internal
    \/ \E t \in Clients : EvictLock(t) /\ Internal
    \/ \E t \in Clients : EvictBody(t) /\ Internal
    \/ \E t \in Clients : Returned(t) /\ Internal
    \/ \E t \in Clients : CloseSignal(t) /\ Internal
    \/ \E t \in Clients : CloseWait(t) /\ Internal
    \/ ReaperTick /\ Internal
    \/ ReaperStop /\ Internal
    \/ ReaperSweep /\ Internal
    \/ Tick /\ Internal

SpecShutdown == InitShutdown /\ [][NextShutdown]_vars

\* Calls on a single key: Set with any value and ttl, Get and Delete of the key
\* "a", and Close, up to MaxKeyOps calls in all, while the clock advances and the
\* cleanup goroutine and the asynchronous deletes run. One entry never exceeds
\* the budget, so no eviction pass runs.
TheKey == <<97>>

NextKey ==
    \/ /\ nOps < MaxKeyOps
       /\ \/ \E t \in Clients, v \in Values, ttl \in TTLArgs :
                SetBegin(t, TheKey, v, ttl) /\ Observe(t, "set", TheKey)
          \/ \E t \in Clients : GetBegin(t, TheKey) /\ Observe(t, "get", TheKey)
          \/ \E t \in Clients : DeleteBegin(t, TheKey) /\ Observe(t, "delete", TheKey)
          \/ \E t \in Clients : CloseBegin(t) /\ Observe(t, "close", <<>>)
    \/ \E t \in Clients : SetLocked(t) /\ Internal
    \/ \E t \in Clients : EvictCheck(t) /\ Internal
    \/ \E t \in Clients : GetLookup(t) /\ Internal
    \/ \E t \in Clients : GetCheck(t) /\ Internal
    \/ \E t \in Clients : GetSplice(t) /\ Internal
    \/ \E t \in Clients : GetRet(t) /\ Internal
    \/ \E t \in Clients \cup Asyncs : DeleteLocked(t) /\ Internal
    \/ \E a \in Asyncs : AsyncDeleteBegin(a) /\ Internal
    \/ \E t \in Clients : Returned(t) /\ Internal
    \/ \E t \in Clients : CloseSignal(t) /\ Internal
    \/ \E t \in Clients : CloseWait(t) /\ Internal
    \/ ReaperTick /\ Internal
    \/ ReaperStop /\ Internal
    \/ ReaperSweep /\ Internal
    \/ Tick /\ Internal

SpecKey == InitStore /\ [][NextKey]_vars

\* Close and the statistics: Set with any value and ttl and Get of the key "a",
\* Close and GetStats, up to MaxCloseOps calls in all, while the clock advances
\* and the cleanup goroutine and the asynchronous deletes run.
NextClose ==
    \/ /\ nOps < MaxCloseOps
       /\ \/ \E t \in Clients, v \in Values, ttl \in TTLArgs :
                SetBegin(t, TheKey, v, ttl) /\ Observe(t, "set", TheKey)
          \/ \E t \in Clients : GetBegin(t, TheKey) /\ Observe(t, "get", TheKey)
          \/ \E t \in Clients : StatsBegin(t) /\ Observe(t, "stats", <<>>)
          \/ \E t \in Clients : CloseBegin(t) /\ Observe(t, "close", <<>>)
    \/ \E t \in Clients : SetLocked(t) /\ Internal
    \/ \E t \in Clients : EvictCheck(t) /\ Internal
    \/ \E t \in Clients : GetLookup(t) /\ Internal
    \/ \E t \in Clients : GetCheck(t) /\ Internal
    \/ \E t \in Clients : GetSplice(t) /\ Internal
    \/ \E t \in Clients : GetRet(t) /\ Internal
    \/ \E a \in Asyncs : DeleteLocked(a) /\ Internal
    \/ \E a \in Asyncs : AsyncDeleteBegin(a) /\ Internal
    \/ \E t \in Clients : StatsShard(t) /\ Internal
    \/ \E t \in Clients : StatsHits(t) /\ Internal
    \/ \E t \in Clients : StatsMiss(t) /\ Internal
    \/ \E t \in Clients : StatsSize(t) /\ Internal
    \/ \E t \in Clients : Returned(t) /\ Internal
    \/ \E t \in Clients : CloseSignal(t) /\ Internal
    \/ \E t \in Clients : CloseWait(t) /\ Internal
    \/ ReaperTick /\ Internal
    \/ ReaperStop /\ Internal
    \/ ReaperSweep /\ Internal
    \/ Tick /\ Internal

SpecClose == InitStore /\ [][NextClose]_vars

(* ------------------ configuration (config.go, cache.go:59) -------------- *)
\* the largest ShardCount that Validate accepts
MaxShardCount == 65536

\* Config values: each field below, at and above the limits Validate tests
Configs ==
    [MaxMemoryBytes : {-1, 0, 1, MaxMemoryBytes},
     ShardCount : {-1, 0, 1, ShardCount, MaxShardCount, MaxShardCount + 1},
     DefaultTTL : {-1, 0, PositiveDefaultTTL},
     CleanupInterval : {-1, 0, 1}]

\* the error values of Validate: nil, or ErrInvalidConfig with its Field
NilError == [type |-> "nil", Field |-> ""]
ErrInvalidConfig(field) == [type |-> "ErrInvalidConfig", Field |-> field]

\* Config.Validate
Validate(c) ==
    IF c.MaxMemoryBytes <= 0 THEN ErrInvalidConfig("MaxMemoryBytes")
    ELSE IF c.ShardCount <= 0 THEN ErrInvalidConfig("ShardCount")
    ELSE IF c.ShardCount > MaxShardCount THEN ErrInvalidConfig("ShardCount")
    ELSE IF c.CleanupInterval <= 0 THEN ErrInvalidConfig("CleanupInterval")
    ELSE NilError

\* a caller runs cfg.Validate(); the result carries the configuration in its key
\* field and the error in its val field
ValidateCall(t, cfg) ==
    /\ pc[t] = "idle"
    /\ nOps' = nOps + 1
    /\ Return(t, Result("validate", cfg, Validate(cfg).type, Validate(cfg)))
    /\ pc' = [pc EXCEPT ![t] = "ret"]
    /\ UNCHANGED <<defaultTTL, maxMemoryBytes, cacheVars, mu, closed, stopCh, now, loc>>

\* New(cfg) for a non-nil cfg: it has no error result and does not call
\* Validate; make([]*Shard, n) panics for n < 0, any other configuration gives
\* a cache whose cleanup goroutine has been started (lines 76-77). The result
\* carries the configuration in its key field.
New(t, cfg) ==
    /\ pc[t] = "idle"
    /\ nOps' = nOps + 1
    /\ Return(t, Result("new", cfg, IF cfg.ShardCount < 0 THEN "panic" ELSE "cache", NoValue))
    /\ pc' = [pc EXCEPT ![t] = "ret"]
    /\ UNCHANGED <<defaultTTL, maxMemoryBytes, cacheVars, mu, closed, stopCh, now, loc>>

\* Callers validate configurations and construct caches from them, up to
\* MaxConfigOps calls in all.
NextConfig ==
    \/ /\ nOps < MaxConfigOps
       /\ \/ \E t \in Clients, cfg \in Configs : ValidateCall(t, cfg) /\ UNCHANGED histVars
          \/ \E t \in Clients, cfg \in Configs : New(t, cfg) /\ UNCHANGED histVars
    \/ \E t \in Clients : Returned(t) /\ UNCHANGED histVars

SpecConfig == InitStore /\ [][NextConfig]_vars

(* ================================ claims ================================ *)
Quiescent ==
    /\ \A t \in Clients : pc[t] \in {"idle", "ret"}
    /\ \A a \in Asyncs : pc[a] = "free"
    /\ pc[Reaper] \in {"select", "done"}

IsValue(v) == v.type = "string"

C2_SetNeverBlocksForever ==
    \A t \in Clients : pc[t] = "evict_lock" => mu[loc[t].i] # t

\* C3: writers Set pairwise distinct keys concurrently, staying within the budget
\* and storing no expiry; once all of them have finished, a Get of a written key
\* returns the value written for it.
WrittenKeys == {k \in Keys : written[k] # NoValue}
WrittenSize == SumOver([k \in Keys |-> calculateSize(k, written[k])], WrittenKeys)

C3_ConcurrentWriters ==
    \A c \in Clients :
        (/\ clean = "reading" /\ WrittenSize <= maxMemoryBytes
         /\ pc[c] = "ret" /\ res[c].op = "get" /\ res[c].key \in WrittenKeys)
            => (res[c].out = "hit" /\ res[c].val = written[res[c].key])

C3_Witness ==
    \E c \in Clients :
        /\ clean = "reading" /\ raced /\ Cardinality(WrittenKeys) = 2
        /\ WrittenSize <= maxMemoryBytes
        /\ pc[c] = "ret" /\ res[c].op = "get" /\ res[c].key \in WrittenKeys
        /\ res[c].out = "hit"

\* C4: once a Close has returned nil, a Set returns ErrCacheClosed, a Get returns
\* a miss and a Delete returns false, at once and without changing the entries,
\* the recency lists, the size counters or the hit and miss counters.
C4_ClosedRejects ==
    [][closeDone =>
        \A c \in Clients :
            (pc[c] = "idle" /\ pc'[c] # "idle") =>
                /\ pc'[c] \notin {"set_lock", "get_lookup", "del_lock"}
                /\ (pc'[c] = "ret" /\ res'[c].op = "set") =>
                       (res'[c].out = "ErrCacheClosed" /\ UNCHANGED cacheVars)
                /\ (pc'[c] = "ret" /\ res'[c].op = "get") =>
                       (res'[c].out = "miss" /\ UNCHANGED cacheVars)
                /\ (pc'[c] = "ret" /\ res'[c].op = "delete") =>
                       (res'[c].out = "false" /\ UNCHANGED cacheVars)]_vars

C4_Witness ==
    \E c \in Clients :
        /\ closeDone /\ \A t \in Clients \ {c} : pc[t] = "idle"
        /\ pc[c] = "ret" /\ res[c].op = "set" /\ res[c].out = "ErrCacheClosed"

\* C5: closed only ever changes from 0 to 1; the Close call whose swap succeeded
\* is the only one that can return nil, and it does so at most once; every other
\* Close call returns ErrCacheClosed.
ClosePcs == {"close_signal", "close_wait"}

C5_CloseOnce ==
    [][/\ closed = 1 => closed' = 1
       /\ closed' \in {0, 1}
       /\ \A c \in Clients :
            /\ (pc[c] = "idle" /\ pc'[c] = "close_signal") =>
                   (closed = 0 /\ ~closeDone /\ \A t \in Clients : pc[t] \notin ClosePcs)
            /\ (pc[c] = "close_wait" /\ pc'[c] = "ret") =>
                   (res'[c].out = "ok" /\ ~closeDone)
            /\ (pc[c] = "idle" /\ pc'[c] = "ret" /\ res'[c].op = "close") =>
                   (res'[c].out = "ErrCacheClosed" /\ closed = 1)]_vars

C5_Witness ==
    \E c, d \in Clients :
        /\ pc[c] = "ret" /\ res[c].op = "close" /\ res[c].out = "ok"
        /\ pc[d] = "ret" /\ res[d].op = "close" /\ res[d].out = "ErrCacheClosed"

\* C6: Delete(k) returns true exactly when k is in its shard when the lock is
\* taken, and leaves k in neither the index nor the recency list; after a Delete
\* that removed k and with no Set(k) since, Get(k) misses and Delete(k) returns false.
C6_Delete ==
    /\ [][\A t \in Clients :
            (pc[t] = "del_lock" /\ pc'[t] = "ret") =>
                LET k == loc[t].key
                    s == shardOf[k]
                IN  /\ res'[t].out = (IF k \in DOMAIN data[s] THEN "true" ELSE "false")
                    /\ k \notin DOMAIN data'[s]
                    /\ \A i \in 1 .. Len(lruList'[s]) : lruList'[s][i] # k]_vars
    /\ [](\A c \in Clients :
            (pc[c] = "ret" /\ expect[c] = Mark("deleted")) =>
                res[c].out = (IF res[c].op = "get" THEN "miss" ELSE "false"))

C6_Witness ==
    \E c \in Clients :
        /\ pc[c] = "ret" /\ expect[c] = Mark("deleted")
        /\ res[c].op = "delete" /\ res[c].out = "false"

\* C7: a Get of an entry stored with a finite expiry returns it while the clock
\* has not passed the expiry; a Get called after the clock has passed the expiry
\* returns a miss and counts it, whether the expired entry is still stored or the
\* cleanup sweep or an asynchronous delete has removed it, until the key is set again.
C7_TTL ==
    [][\A c \in Clients :
          (pc[c] # "ret" /\ pc'[c] = "ret" /\ res'[c].op = "get") =>
              LET k == res'[c].key
                  s == shardOf[k]
              IN  /\ (/\ IsValue(expect'[c])
                      /\ k \in DOMAIN data[s]
                      /\ data[s][k].expiry > 0) =>
                         (res'[c].out = "hit" /\ res'[c].val = expect'[c])
                  /\ expect'[c] = Mark("expired") =>
                         /\ res'[c].out = "miss"
                         /\ totalMiss' = totalMiss + 1
                         /\ missCount'[s] = missCount[s] + 1]_vars

C7_Witness ==
    \E c \in Clients :
        /\ pc[c] = "ret" /\ res[c].op = "get" /\ expect[c] = Mark("expired")
        /\ res[c].out = "miss" /\ res[c].key \in DOMAIN data[shardOf[res[c].key]]
        /\ totalMiss = 1

\* C8: the expiry Set stores is the clock reading plus the ttl argument when one
\* is given and positive, else the clock reading plus the default TTL when that is
\* positive, else 0 (never); a zero or negative ttl argument counts as none.
ClaimedExpiry(ttl, t) ==
    IF ttl # <<>> /\ ttl[1] >= 1 THEN t + ttl[1]
    ELSE IF defaultTTL >= 1 THEN t + defaultTTL
    ELSE 0

C9_ShardSize ==
    \A s \in Shards : mu[s] = NoThread => size[s] = SumSizes(data[s])

C9_Witness ==
    \E s \in Shards :
        /\ mu[s] = NoThread /\ Cardinality(DOMAIN data[s]) = 2
        /\ size[s] = SumSizes(data[s]) /\ size[s] = 132

\* C10: with no operation in flight, total_size is the sum of the shard sizes.
C10_TotalSize ==
    Quiescent => totalSize = SumOver(size, Shards)


\* C11: whenever a shard's lock is not held for writing, the shard's recency list
\* holds exactly the keys of its index, each of them at exactly one position (the
\* node the entry's handle names), and nothing else.
Positions(list, k) == {i \in 1 .. Len(list) : list[i] = k}

C11_IndexMatchesRecency ==
    \A s \in Shards :
        mu[s] = NoThread =>
            /\ \A k \in DOMAIN data[s] : Cardinality(Positions(lruList[s], k)) = 1
            /\ \A i \in 1 .. Len(lruList[s]) : lruList[s][i] \in DOMAIN data[s]
            /\ Len(lruList[s]) = Cardinality(DOMAIN data[s])

C11_Witness ==
    \E s \in Shards :
        /\ mu[s] = NoThread /\ Len(lruList[s]) = 2
        /\ Cardinality(DOMAIN data[s]) = 2
        /\ \A k \in DOMAIN data[s] : Cardinality(Positions(lruList[s], k)) = 1


\* C12: total_size and every shard's size counter are at least 0 in every
\* reachable state.
C12_SizesNonNegative ==
    /\ totalSize >= 0
    /\ \A s \in Shards : size[s] >= 0


\* C13: a Set of a key that is in its shard replaces the value, size and expiry of
\* that entry and moves it to the recency front, keeps the set of entries, the
\* other entries and their order, and adds new_size - old_size (negative for a
\* smaller value) to both the shard size and total_size.
Others(list, k) == SelectSeq(list, LAMBDA x : x # k)

C13_UpdateInPlace ==
    [][\A t \in Clients :
          LET k == loc[t].key
              s == shardOf[k]
              new == calculateSize(k, loc[t].value)
          IN  (pc[t] = "set_lock" /\ pc'[t] = "set_evict" /\ k \in DOMAIN data[s]) =>
                  /\ data'[s][k] = [value |-> loc[t].value, size |-> new,
                                    expiry |-> loc[t].expiry]
                  /\ DOMAIN data'[s] = DOMAIN data[s]
                  /\ \A x \in DOMAIN data[s] \ {k} : data'[s][x] = data[s][x]
                  /\ lruList'[s][1] = k
                  /\ Len(lruList'[s]) = Len(lruList[s])
                  /\ Others(lruList'[s], k) = Others(lruList[s], k)
                  /\ size'[s] = size[s] + (new - data[s][k].size)
                  /\ totalSize' = totalSize + (new - data[s][k].size)
                  /\ \A x \in Shards \ {s} : size'[x] = size[x] /\ data'[x] = data[x]]_vars

C13_Witness ==
    \E t, c \in Clients :
        LET k == loc[t].key
        IN  /\ pc[t] = "set_evict" /\ now = 1
            /\ pc[c] = "ret" /\ res[c].op = "set" /\ res[c].out = "ok" /\ res[c].key = k
            /\ data[shardOf[k]][k].size = 66 /\ totalSize = 66


\* C14: while Sets of distinct keys, each much smaller than the budget, add up to
\* more than the budget, total_size stays within 4 x max_memory_bytes, and once
\* the Sets are done the cache holds fewer entries than were inserted.
TotalEntries == SumOver([s \in Shards |-> Cardinality(DOMAIN data[s])], Shards)

C14_BoundedOvershoot ==
    /\ totalSize <= 4 * maxMemoryBytes
    /\ (nOps = MaxFill /\ pc[Filler] = "idle") => TotalEntries < nOps


\* C15: when a Clear that ran with no other call in flight returns, every shard's
\* index and recency list are empty and every shard size and total_size are 0; a
\* GetStats that runs alone on the cache in that state reports total_entries = 0
\* and total_size = 0.
Emptied ==
    /\ \A s \in Shards : data[s] = EmptyMap /\ lruList[s] = <<>> /\ size[s] = 0
    /\ totalSize = 0

C15_Clear ==
    [][\A c \in Clients :
          /\ (pc[c] = "clear_store" /\ pc'[c] = "ret" /\ expect'[c] = Mark("alone")) => Emptied'
          /\ (pc[c] = "stats_size" /\ pc'[c] = "ret" /\ expect'[c] = Mark("alone") /\ Emptied) =>
                 (res'[c].val.TotalEntries = 0 /\ res'[c].val.TotalSize = 0)]_vars

C15_Witness ==
    \E c \in Clients :
        /\ pc[c] = "ret" /\ res[c].op = "stats" /\ expect[c] = Mark("alone")
        /\ swept > 0 /\ Emptied
        /\ res[c].val.TotalEntries = 0 /\ res[c].val.TotalSize = 0


\* a step of the call client t is in: its position or its locals change
Moves(t) == pc'[t] # pc[t] \/ loc'[t] # loc[t]

\* C16: no step of a Clear call changes a hit or miss counter, global or of a
\* shard, or the closed flag.
C16_ClearFrame ==
    [][\A t \in Clients :
          (\/ pc[t] = "idle" /\ pc'[t] = "clear_shard"
           \/ pc[t] \in {"clear_shard", "clear_store"} /\ Moves(t)) =>
              UNCHANGED <<hitCount, missCount, totalHits, totalMiss, closed>>]_vars

C16_Witness ==
    \E c \in Clients :
        /\ pc[c] = "ret" /\ res[c].op = "clear"
        /\ totalMiss = 1 /\ \E s \in Shards : missCount[s] = 1

\* C17: ResetStats stores 0 to the global hit and miss counters and then to each
\* shard's hit and miss counters, and none of its steps changes an entry, a
\* recency list, a shard size or total_size; when a ResetStats that ran with no
\* other call in flight returns, every hit and miss counter is 0.
AllCountersZero ==
    /\ totalHits = 0 /\ totalMiss = 0
    /\ \A s \in Shards : hitCount[s] = 0 /\ missCount[s] = 0

C17_ResetStats ==
    [][\A t \in Clients :
          /\ (pc[t] = "idle" /\ pc'[t] = "reset_shard") =>
                 /\ totalHits' = 0 /\ totalMiss' = 0
                 /\ UNCHANGED <<data, lruList, size, totalSize>>
          /\ (pc[t] = "reset_shard" /\ Moves(t)) =>
                 /\ hitCount'[loc[t].i] = 0 /\ missCount'[loc[t].i] = 0
                 /\ UNCHANGED <<data, lruList, size, totalSize>>
          /\ (pc[t] = "reset_shard" /\ pc'[t] = "ret" /\ expect'[t] = Mark("alone")) =>
                 AllCountersZero']_vars

C17_Witness ==
    \E c \in Clients :
        /\ pc[c] = "reset_shard" /\ loc[c].i = 1 /\ expect[c] = Mark("alone")
        /\ totalMiss = 0 /\ missCount[0] = 0 /\ missCount[1] = 1

\* C18: a Get that passed the closed check adds 1 to the hit counter of its shard
\* and to the global hit counter when its lookup found the key and the entry is
\* not expired, and otherwise 1 to the two miss counters, in the step in which it
\* returns that result; no other step of any call except ResetStats changes a hit
\* or miss counter.
Looked(c) == IF loc[c].live THEN data[shardOf[loc[c].key]][loc[c].key] ELSE loc[c].ent

C18_GetCounts ==
    [][/\ \A c \in Clients :
            LET s == shardOf[loc[c].key]
            IN  /\ (pc[c] = "get_check" /\ pc'[c] # pc[c]) =>
                       IF (loc[c].live \/ loc[c].ent # NoEntry) /\ ~PastExpiry(Looked(c), now)
                       THEN pc'[c] = "get_splice"
                       ELSE /\ pc'[c] = "ret" /\ res'[c].out = "miss"
                            /\ missCount' = [missCount EXCEPT ![s] = @ + 1]
                            /\ totalMiss' = totalMiss + 1
                            /\ UNCHANGED <<hitCount, totalHits>>
                /\ (pc[c] = "get_splice" /\ pc'[c] # pc[c]) => pc'[c] = "get_ret"
                /\ (pc[c] = "get_ret" /\ pc'[c] # pc[c]) =>
                       /\ pc'[c] = "ret" /\ res'[c].out = "hit"
                       /\ hitCount' = [hitCount EXCEPT ![s] = @ + 1]
                       /\ totalHits' = totalHits + 1
                       /\ UNCHANGED <<missCount, totalMiss>>
       /\ (\A c \in Clients :
               /\ pc[c] \in {"get_check", "get_ret"} => pc'[c] = pc[c]
               /\ pc[c] = "reset_shard" => ~Moves(c)
               /\ pc'[c] = "reset_shard" => pc[c] = "reset_shard") =>
              UNCHANGED <<hitCount, missCount, totalHits, totalMiss>>]_vars

C18_Witness ==
    \E c \in Clients :
        /\ pc[c] = "ret" /\ res[c].op = "get" /\ res[c].out = "hit"
        /\ totalHits = 1 /\ hitCount[shardOf[res[c].key]] = 1
        /\ totalMiss = 0 /\ \A s \in Shards : missCount[s] = 0

\* C19: with no operation in flight, total_hits is the sum of the shards' hit
\* counters and total_miss is the sum of the shards' miss counters.
C19_TotalsMatchShards ==
    Quiescent => /\ totalHits = SumOver(hitCount, Shards)
                 /\ totalMiss = SumOver(missCount, Shards)

\* C20: the hit ratio in a GetStats snapshot, a fraction n/d, is 0 when the hits
\* and misses of the snapshot sum to 0 and hits / (hits + misses) otherwise, and
\* lies between 0 and 1.
C20_HitRatio ==
    \A c \in Clients :
        (pc[c] = "ret" /\ res[c].op = "stats") =>
            LET h == res[c].val.HitCount
                m == res[c].val.MissCount
                n == res[c].val.HitRatio[1]
                d == res[c].val.HitRatio[2]
            IN  /\ d > 0
                /\ h + m = 0 => n = 0
                /\ h + m > 0 => n * (h + m) = h * d
                /\ 0 <= n /\ n <= d

C20_Witness ==
    \E c \in Clients :
        /\ pc[c] = "ret" /\ res[c].op = "stats"
        /\ res[c].val.HitCount = 1 /\ res[c].val.MissCount = 2
        /\ res[c].val.HitRatio = <<1, 3>>


\* C21: the entry that the eviction pass removes from a shard is the one whose
\* last touch is the oldest among the entries then in that shard, and a Set or a
\* Get hit puts the entry it touches at the front of its shard's recency list.
C21_EvictsLeastRecent ==
    [][/\ \A t \in Clients :
             pc[t] = "evict_body" /\ pc'[t] # pc[t]
             => \A r \in DOMAIN data[loc[t].i] \ DOMAIN data'[loc[t].i] :
                    \A x \in DOMAIN data[loc[t].i] : touched[r] <= touched[x]
       /\ \A k \in Keys : Touches(k) => lruList'[shardOf[k]][1] = k]_vars

\* "a" was set, "c" was set after it, a Get hit touched "a" again, and the
\* eviction pass has removed "c"
C21_Witness ==
    /\ evicted[0] = 1
    /\ totalHits = 1
    /\ touched[<<97>>] = 3
    /\ DOMAIN data[0] = {<<97>>}

\* a Set waits in its eviction pass for a shard lock that it holds itself
SelfBlocked(t) == pc[t] = "evict_lock" /\ mu[loc[t].i] = t

\* the cleanup sweep waits for a shard lock whose holder never releases it
ReaperBlocked ==
    /\ pc[Reaper] = "sweep"
    /\ \E t \in Clients : mu[loc[Reaper].i] = t /\ SelfBlocked(t)

\* C22: while the cache is open, every entry with a finite expiry is removed
\* after it expires: in no reachable state of an open cache does an expired
\* entry stay in its shard while the cleanup sweep can never complete.
C22_ExpiredAreSwept ==
    ~ /\ closed = 0
      /\ ReaperBlocked
      /\ \E s \in Shards : \E k \in DOMAIN data[s] : PastExpiry(data[s][k], loc[Reaper].now)

\* the constraints on a configuration, with the fields that break them
Offending(c) ==
    {f \in {"MaxMemoryBytes", "ShardCount", "DefaultTTL", "CleanupInterval"} :
        \/ f = "MaxMemoryBytes" /\ ~(c.MaxMemoryBytes > 0)
        \/ f = "ShardCount" /\ ~(1 <= c.ShardCount /\ c.ShardCount <= 65536)
        \/ f = "DefaultTTL" /\ ~(c.DefaultTTL >= 0)
        \/ f = "CleanupInterval" /\ ~(c.CleanupInterval > 0)}

\* C23: validation accepts a configuration exactly when max_memory_bytes > 0,
\* 1 <= shard_count <= 65536, default_ttl >= 0 and cleanup_interval > 0; otherwise
\* it returns an InvalidConfig error whose field names an offending field.
C23_Validate ==
    \A c \in Clients :
        res[c].op = "validate"
        => IF Offending(res[c].key) = {}
           THEN res[c].val.type = "nil"
           ELSE /\ res[c].val.type = "ErrInvalidConfig"
                /\ res[c].val.Field \in Offending(res[c].key)

\* C24: constructing a cache validates its configuration: a configuration that
\* violates a constraint gives no cache but a structured config error.
C24_NewValidates ==
    \A c \in Clients :
        res[c].op = "new"
        => IF Offending(res[c].key) = {}
           THEN res[c].out = "cache"
           ELSE res[c].out = "ErrInvalidConfig"

\* C25: once closed is set, no Set and no Delete changes the cache: every change
\* that a Set or a Delete call makes to a shard's entries, recency list or size,
\* or to total_size, is made while closed is still 0.
C25_NoMutationAfterClosed ==
    [][closed = 1 =>
        \A t \in Clients :
            (pc[t] \in {"set_lock", "evict_body", "del_lock"} /\ pc'[t] # pc[t])
            => UNCHANGED <<data, lruList, size, totalSize>>]_vars

\* C26: a Close call returns nil only after the cleanup goroutine has terminated,
\* and from that return on the cleanup goroutine takes no step: it locks no shard
\* and removes no entry.
C26_CloseAfterReaper ==
    [][/\ \A c \in Clients :
             (pc[c] = "close_wait" /\ pc'[c] = "ret" /\ res'[c].out = "ok")
             => pc[Reaper] = "done"
       /\ closeDone => /\ pc[Reaper] = "done" /\ pc'[Reaper] = "done"
                       /\ loc'[Reaper] = loc[Reaper]]_vars

\* a Close has returned nil on a cache whose cleanup goroutine had removed an
\* expired entry
C26_Witness ==
    /\ closeDone
    /\ \E k \in Keys : gone[k] = "expired"

\* C27: once the stop signal has fired, the cleanup goroutine terminates and the
\* first Close returns nil: in no reachable state has close(stopCh) run while
\* the Close call waits for a cleanup goroutine that can never finish its sweep.
C27_ShutdownCompletes ==
    ~ /\ stopCh
      /\ ReaperBlocked
      /\ \E c \in Clients : pc[c] = "close_wait"

\* the shards whose lock thread t holds
LocksOf(t) == {s \in Shards : mu[s] = t}

\* C28: no thread ever holds two shard locks at the same time: Set has released
\* its shard's lock before its eviction pass locks a shard.
C28_OneLockAtATime ==
    \A t \in Threads : Cardinality(LocksOf(t)) <= 1

\* the number of shards an eviction pass covers: max(1, N/4)
PassShards == IF ShardCount \div 4 >= 1 THEN ShardCount \div 4 ELSE 1

C30_EvictionDistributed ==
    \A s1, s2 \in Shards :
        ~ /\ evicted[s1] > 0 /\ data[s1] = EmptyMap
          /\ s2 >= PassShards /\ evicted[s2] = 0 /\ data[s2] # EmptyMap

\* the entries of shard s that are past a finite expiry at clock reading t
Lapsed(s, t) == {k \in DOMAIN data[s] : data[s][k].expiry # 0 /\ t > data[s][k].expiry}

\* C31: a sweep reads the clock once, when it starts; from each shard it removes
\* exactly the entries with a finite expiry below that reading, subtracting their
\* sizes from the shard size and total_size, and leaves the other entries, their
\* order and every other shard as they were; the reaper holds no lock between
\* shards.
C31_Sweep ==
    [][/\ (pc[Reaper] = "select" /\ pc'[Reaper] = "sweep")
          => loc'[Reaper].now = now /\ loc'[Reaper].i = 0 /\ UNCHANGED cacheVars
       /\ (pc[Reaper] = "sweep" /\ loc'[Reaper] # loc[Reaper])
          => LET s == loc[Reaper].i
                 out == Lapsed(s, loc[Reaper].now)
             IN  /\ DOMAIN data'[s] = DOMAIN data[s] \ out
                 /\ \A k \in DOMAIN data'[s] : data'[s][k] = data[s][k]
                 /\ lruList'[s] = SelectSeq(lruList[s], LAMBDA k : k \notin out)
                 /\ size'[s] = size[s] - SumOver([k \in out |-> data[s][k].size], out)
                 /\ totalSize' = totalSize - SumOver([k \in out |-> data[s][k].size], out)
                 /\ \A o \in Shards \ {s} :
                        data'[o] = data[o] /\ lruList'[o] = lruList[o] /\ size'[o] = size[o]
                 /\ pc'[Reaper] = "sweep" => loc'[Reaper].now = loc[Reaper].now
                 /\ \A o \in Shards : mu[o] # Reaper /\ mu'[o] # Reaper]_vars

\* the sweep has removed the expired "a" from shard 0 and left "c", which is not
\* expired, in it
C31_Witness ==
    /\ gone[<<97>>] = "expired"
    /\ <<99>> \in DOMAIN data[0]
    /\ pc[Reaper] = "sweep" /\ loc[Reaper].i = 1

\* C32: the reaper looks at the stop signal between ticks and between shards:
\* once the stop signal has fired, it finishes at most the shard it is working
\* on, goes on to no further shard and starts no further sweep.
C32_StopsBetweenShards ==
    [][stopCh =>
        /\ ~(pc[Reaper] = "select" /\ pc'[Reaper] = "sweep")
        /\ (pc[Reaper] = "sweep" /\ loc'[Reaper] # loc[Reaper]) => pc'[Reaper] # "sweep"]_vars

\* C33: when a Close has returned nil, every background task of the cache has
\* finished: the cleanup goroutine and every asynchronous delete started by a Get.
C33_AllTasksFinished ==
    closeDone => /\ pc[Reaper] = "done"
                 /\ \A a \in Asyncs : pc[a] = "free"

\* C34: a Get never observes a partial Set: the value a Get hit returns and the
\* expiry it read to decide on the hit were stored by the same Set, so either the
\* value or the expiry of the entry is still what it was when the expiry was read.
C34_GetSeesOneSet ==
    [][\A c \in Clients :
          (pc[c] = "get_ret" /\ pc'[c] = "ret")
          => \/ res'[c].val = checked[c].value
             \/ Held(c).expiry = checked[c].expiry]_vars

\* which call removes entries in this step
ClientDeletes(k) ==
    \E c \in Clients : pc[c] = "del_lock" /\ pc'[c] = "ret" /\ loc[c].key = k
AsyncDeletes(k) ==
    \E a \in Asyncs : pc[a] = "del_lock" /\ pc'[a] = "free" /\ loc[a].key = k
Sweeps == pc[Reaper] = "sweep" /\ loc'[Reaper] # loc[Reaper]
Evicts == \E c \in Clients : pc[c] = "evict_body" /\ pc'[c] # pc[c]
Clears == \E c \in Clients : pc[c] = "clear_shard" /\ loc'[c] # loc[c]

\* C35 as stated: an entry leaves the cache only by a client's Delete, by the
\* expiry-driven removal (cleanup sweep or asynchronous delete) of an entry that
\* is expired when it is removed, by eviction or by Clear.
C35_RemovalCauses ==
    [][\A k \in Keys :
          Removed(k)
          => \/ ClientDeletes(k)
             \/ (AsyncDeletes(k) \/ Sweeps) /\ PastExpiry(data[shardOf[k]][k], now)
             \/ Evicts
             \/ Clears]_vars

\* C35 amended: an entry leaves the cache only by a client's Delete, by the
\* asynchronous delete that a Get starts after it found an expired entry under
\* the key (it removes the entry stored under the key when it runs, expired or
\* not), by the cleanup sweep if the entry is expired, by eviction or by Clear.
C35_RemovalCausesAmended ==
    [][/\ \A k \in Keys :
             Removed(k)
             => \/ ClientDeletes(k)
                \/ AsyncDeletes(k)
                \/ Sweeps /\ PastExpiry(data[shardOf[k]][k], now)
                \/ Evicts
                \/ Clears
       /\ \A a \in Asyncs :
             (pc[a] = "free" /\ pc'[a] # "free")
             => \E c \in Clients :
                    /\ pc[c] = "get_check" /\ pc'[c] = "ret" /\ loc[c].key = loc'[a].key
                    /\ PastExpiry(checked'[c], now)]_vars

\* an asynchronous delete, started by a Get that found "a" expired, is at the
\* shard lock while the entry that a later Set stored under "a" is not expired
C35_Witness ==
    \E a \in Asyncs :
        /\ pc[a] = "del_lock" /\ loc[a].key = TheKey
        /\ TheKey \in DOMAIN data[0] /\ ~PastExpiry(data[0][TheKey], now)
        /\ mu[0] = NoThread
        /\ nOps = 3 /\ \A c \in Clients : pc[c] = "idle"

\* the sizes of the entries that leave shard s in this step
LeavingSize(s) ==
    LET out == DOMAIN data[s] \ DOMAIN data'[s]
    IN  SumOver([k \in out |-> data[s][k].size], out)

\* C36: an entry's size is subtracted exactly once when the entry is removed: a
\* step of a client Delete, of an asynchronous delete, of the cleanup sweep or of
\* the eviction pass lowers the shard size and total_size by the sizes of the
\* entries it removes, and a Delete that finds its key absent returns false and
\* changes nothing.
C36_RemovedOnce ==
    [][((\E k \in Keys : ClientDeletes(k) \/ AsyncDeletes(k)) \/ Sweeps \/ Evicts)
       => /\ \A s \in Shards : size'[s] = size[s] - LeavingSize(s)
          /\ totalSize' = totalSize - SumOver([s \in Shards |-> LeavingSize(s)], Shards)
          /\ \A k \in Keys :
                 (ClientDeletes(k) \/ AsyncDeletes(k)) /\ k \notin DOMAIN data[shardOf[k]]
                 => /\ UNCHANGED cacheVars
                    /\ \A c \in Clients : pc'[c] # pc[c] => res'[c].out = "false"]_vars

\* a client's Delete("a"), called while the expired entry was there, has found the
\* key absent and returned false: another remover took the entry first
C36_Witness ==
    \E c \in Clients :
        /\ pc[c] = "ret" /\ res[c].op = "delete" /\ res[c].out = "false"
        /\ expect[c] = Mark("expired")
        /\ size[0] = 0 /\ totalSize = 0

\* thread t makes, in this step, a step of one of its critical sections on shard s
LockedStep(t, s) ==
    \/ /\ pc[t] \in {"set_lock", "del_lock", "get_lookup", "get_splice"}
       /\ pc'[t] # pc[t] /\ shardOf[loc[t].key] = s
    \/ pc[t] = "evict_body" /\ pc'[t] # pc[t] /\ loc[t].i = s
    \/ pc[t] \in {"clear_shard", "stats_shard", "sweep"} /\ loc'[t] # loc[t] /\ loc[t].i = s

\* C37: every write to a shard's index or recency list, or to the fields of one
\* of its entries, is made by a thread in a critical section of that shard while
\* no other thread holds the shard's lock (the eviction pass holds it from its
\* Lock step on); an index lookup is made while no other thread holds the lock
\* for writing.
C37_WritesUnderLock ==
    [][\A s \in Shards :
          /\ \A t \in Threads :
                 LockedStep(t, s)
                 => /\ mu[s] \in {NoThread, t}
                    /\ pc[t] = "evict_body" => mu[s] = t
          /\ (data'[s] # data[s] \/ lruList'[s] # lruList[s])
             => \E t \in Threads :
                    LockedStep(t, s) /\ pc[t] \notin {"get_lookup", "stats_shard"}]_vars

\* a Get that found its entry waits for the recency splice while a Set holds the
\* shard's lock
C37_Witness ==
    \E c, t \in Clients :
        /\ c # t
        /\ pc[c] = "get_splice" /\ mu[shardOf[loc[c].key]] = t
        /\ pc[t] \in SetPcs

(* ---------------------------------------------------------------------- *)
\* hash(k) mod N, computed from the 32-bit hash on its own
HomeShard(k) ==
    LET h == hash(k)
    IN  ((h[1] % ShardCount) * (65536 % ShardCount) + (h[2] % ShardCount)) % ShardCount

\* the keys of a shard's index and of its recency list
Holds(s) == DOMAIN data[s] \cup {lruList[s][i] : i \in 1 .. Len(lruList[s])}
HoldsNext(s) == DOMAIN data'[s] \cup {lruList'[s][i] : i \in 1 .. Len(lruList'[s])}

\* a step of thread t leaves every shard but the one its key hashes to alone
OnlyHomeShard(t) ==
    \A s \in Shards \ {HomeShard(loc[t].key)} :
        /\ data'[s] = data[s] /\ lruList'[s] = lruList[s] /\ size'[s] = size[s]
        /\ hitCount'[s] = hitCount[s] /\ missCount'[s] = missCount[s]
        /\ mu'[s] = mu[s]

Stale(c) == ~loc[c].live \/ loc[c].key \notin DOMAIN data[shardOf[loc[c].key]]

\* C39: when the entry a Get found has been removed or replaced before the
\* Get's recency splice, the splice changes neither the index, nor the
\* recency list, nor the size counters, and a removed key stays out of both.
C39_StaleSplice ==
    [][\A c \in Clients :
           (pc[c] = "get_splice" /\ pc'[c] # pc[c] /\ Stale(c))
           => /\ data' = data /\ lruList' = lruList
              /\ size' = size /\ totalSize' = totalSize
              /\ loc[c].key \notin DOMAIN data[shardOf[loc[c].key]]
                 => ~InList(lruList'[shardOf[loc[c].key]], loc[c].key)]_vars

\* a Get has made its splice after the entry it found was deleted and the
\* key set again
C39_Witness ==
    \E c \in Clients :
        /\ pc[c] = "get_ret" /\ ~loc[c].live
        /\ loc[c].key \in DOMAIN data[shardOf[loc[c].key]]

(* ---------------------------------------------------------------------- *)
\* client t takes a step of a Close call
CloseStep(t) ==
    \/ pc[t] = "idle" /\ pc'[t] = "close_signal"
    \/ pc[t] = "idle" /\ pc'[t] = "ret" /\ res'[t].op = "close"
    \/ pc[t] \in ClosePcs /\ pc'[t] # pc[t]

\* the statistics of the contents recorded when the cache was closed
StatsAtClose ==
    Stats(atClose[6], SumOver([s \in Shards |-> Cardinality(DOMAIN atClose[1][s])], Shards),
          atClose[7], atClose[8])

\* C40: no step of a Close changes the entries, the recency lists, the shard
\* sizes, total_size, the hit and miss counters or a shard lock; and a
\* GetStats made with no other call in flight on a closed cache whose
\* contents nothing has changed since the Close reports the contents the
\* cache had when Close was called.
C40_CloseFrame ==
    [][/\ \A t \in Clients : CloseStep(t) => (cacheVars' = cacheVars /\ mu' = mu)
       /\ \A c \in Clients :
              (/\ pc[c] = "stats_size" /\ pc'[c] = "ret"
               /\ expect[c] = Mark("alone")
               /\ closed = 1 /\ cacheVars = atClose)
              => res'[c].val = StatsAtClose]_vars

\* GetStats has returned on a cache that was closed while it held an entry,
\* with no other call in flight and the contents as Close found them
C40_Witness ==
    \E c \in Clients :
        /\ pc[c] = "ret" /\ res[c].op = "stats"
        /\ expect[c] = Mark("alone")
        /\ closeDone /\ cacheVars = atClose
        /\ res[c].val.TotalEntries = 1 /\ res[c].val.TotalSize > 0

====
